---------------------------- MODULE Spec2Model ----------------------------
(***************************************************************************)
(* Model of BaseNetwork.train (src/parser/base_network.py): the training   *)
(* control loop with moving-average gated checkpointing, early stopping,   *)
(* the Adam -> AMSGrad switch, interrupt handling and the files the run    *)
(* leaves in save_dir.                                                     *)
(*                                                                         *)
(* Accuracies.  The code keeps current_accuracy and best_accuracy as       *)
(* floats and updates current_accuracy by "*= .75; += .25*a".  The model   *)
(* keeps them exactly, as fixed-point numbers with two limbs:              *)
(*    value = (hi * Base + lo) / Base^2,   0 <= lo < Base,  Base = 4^13.   *)
(* Raw dev accuracies are small integers (accuracy in tenths), so every    *)
(* smoothed value of the first 26 evaluation ticks is represented without  *)
(* rounding (the division by 4 is exact), and no run of the model has more *)
(* than 26 ticks.                                                          *)
(***************************************************************************)
EXTENDS Integers, Sequences, FiniteSets, TLC

\* ----------------------------------------------------------------- bounds
MaxSteps == 4
MaxPatience == 3
MaxPrintEvery == 2
MaxBatches == 3
\* A run on an empty training set is taken up this many passes before its
\* epoch counter stops advancing.
MaxEmptyPasses == 3

\* self.global_step is a float32 variable (line 106): below 2^24 every
\* integer is a value of it, from 2^24 on adding 1 gives the same value.
Float32Exact == 16777216

\* --------------------------------------------------------- configuration
\* Sequences of raw dev accuracies (dev_outputs.get_current_accuracy(), in
\* tenths), repeated cyclically over the evaluation ticks of a run.
DevAccuracySequences ==
  { <<0>>, <<5>>, <<5, 4>>, <<5, 0>>, <<0, 5>>, <<5, 0, 0>>, <<4, 5, 0>>, <<5, 0, 4, 4>> }

\* The frozen input sub-models of the network being trained.
InputNetworks == {"TaggerNetwork"}

\* The configuration of section 8, scenario 8 of the specification.
Scenario ==
  [max_steps |-> 100, max_steps_without_improvement |-> 20, print_every |-> 5,
   dev_accuracies |-> <<5, 4>>]

SmallConfigs ==
  [max_steps : 1..MaxSteps,
   max_steps_without_improvement : 1..MaxPatience,
   print_every : 1..MaxPrintEvery,
   dev_accuracies : DevAccuracySequences]

\* The values the configuration provider returns for this network.
Configs ==
  { [max_steps |-> c.max_steps,
     max_steps_without_improvement |-> c.max_steps_without_improvement,
     print_every |-> c.print_every,
     dev_accuracies |-> c.dev_accuracies,
     n_batches |-> b,
     switch_optimizers |-> sw,
     save_model |-> sv,
     parse_datasets |-> pd] :
    c \in SmallConfigs \cup {Scenario}, b \in 0..MaxBatches,
    sw \in BOOLEAN, sv \in BOOLEAN, pd \in BOOLEAN }

\* The configurations whose training set yields at least one batch per pass.
BatchedConfigs == { c \in Configs : c.n_batches >= 1 }

VARIABLES
  config,                \* self._config, as read through the properties
  pc,                    \* position of train() in its code
  input_network_savers,  \* input networks a tf.train.Saver was built for
  restored,              \* input networks whose parameters were restored
  current_optimizer,     \* 'Adam' or 'AMSGrad'
  current_step,
  best_accuracy,
  current_accuracy,
  steps_since_best,
  global_step,           \* the epoch counter self.global_step
  batch,                 \* batches of the current pass already consumed
  n_evals,               \* evaluation ticks so far
  checkpoints,           \* evaluation ticks at which saver.save ran
  step_optimizer,        \* optimizer whose update op the latest step ran
  files,                 \* files of save_dir written by this run
  interrupted,           \* a KeyboardInterrupt was caught by line 267
  exception,             \* exception propagating out of train()
  \* the networks of the run and their vocabularies (__init__)
  networks,              \* classname -> the constructed BaseNetwork
  vocab_heap,            \* vocabulary instances: instance -> its classname
  populated,             \* instances that were loaded or counted
  graph_variables,       \* scopes in which Global_step was created
  ctor_call,             \* arguments of the latest BaseNetwork(...) call
  ctor_error,            \* the assertion that call failed with
  \* parse(), parse_file() and parse_files()
  parse_args,            \* conllu_files, output_dir, output_filename
  parse_pc,              \* position of parse() in its code
  dataset_built,         \* the CoNLLUDataset over conllu_files exists
  session_restored,      \* graph built and latest checkpoint restored
  output_dir,            \* the local output_dir of parse_file
  output_filename,       \* the local output_filename of parse_file
  input_filename,        \* the local input_filename of parse_file
  file_index,            \* parse_files: index of the current file
  batch_index,           \* batches of the current file predicted and cached
  dirs,                  \* directories created by os.makedirs
  written,               \* the dumps: path, file, batches cached at the dump
  parse_error            \* exception propagating out of parse()

trainVars == <<config, pc, input_network_savers, restored, current_optimizer,
               current_step, best_accuracy, current_accuracy,
               steps_since_best, global_step, batch, n_evals, checkpoints,
               step_optimizer, files, interrupted, exception>>

ctorVars == <<networks, vocab_heap, populated, graph_variables, ctor_call,
              ctor_error>>

parseVars == <<parse_args, parse_pc, dataset_built, session_restored,
               output_dir, output_filename, input_filename, file_index,
               batch_index, dirs, written, parse_error>>

vars == <<trainVars, ctorVars, parseVars>>

\* ------------------------------------------------------------ accuracies
Base == 4^13

Zero == [hi |-> 0, lo |-> 0]

\* current_accuracy >= best_accuracy
GreaterEqual(c, b) == c.hi > b.hi \/ (c.hi = b.hi /\ c.lo >= b.lo)

Decay_None(c) == c

\* current_accuracy *= .75
Decay(c) ==
  LET t == 3 * c.lo
      h == 3 * c.hi + (t \div Base)
      l == t % Base
  IN  [hi |-> h \div 4, lo |-> ((h % 4) * Base + l) \div 4]

Gain_Half(c, a) == [hi |-> c.hi + a * (Base \div 2), lo |-> c.lo]

\* current_accuracy += .25*a
Gain(c, a) == [hi |-> c.hi + a * (Base \div 4), lo |-> c.lo]

\* the two statements together
Smooth(c, a) == Gain(Decay(c), a)

\* dev_outputs.get_current_accuracy() at evaluation tick t (t = 1, 2, ...)
DevAccuracy(t) ==
  config.dev_accuracies[((t - 1) % Len(config.dev_accuracies)) + 1]

\* ------------------------------------------------- BaseNetwork.__init__
\* The network classes of a run.  tf.variable_scope(classname, reuse=False)
\* creates Global_step once per scope, so a run holds at most one network
\* of a class and a network is named by its classname.
NetworkClasses == {"TaggerNetwork", "ParserNetwork", "GraphParserNetwork"}

\* The vocabulary class lists a configuration declares for a network.
VocabConfigs ==
  { [input_vocab_classes |-> <<"FormTokenVocab">>,
     output_vocab_classes |-> <<"UPOSTokenVocab">>,
     throughput_vocab_classes |-> <<>>],
    [input_vocab_classes |-> <<"FormTokenVocab", "UPOSTokenVocab">>,
     output_vocab_classes |-> <<"UPOSTokenVocab">>,
     throughput_vocab_classes |-> <<"FormTokenVocab">>],
    [input_vocab_classes |-> <<>>,
     output_vocab_classes |-> <<"DeprelTokenVocab">>,
     throughput_vocab_classes |-> <<"UPOSTokenVocab">>],
    [input_vocab_classes |-> <<"FormTokenVocab">>,
     output_vocab_classes |-> <<"FormTokenVocab", "DeprelTokenVocab">>,
     throughput_vocab_classes |-> <<"DeprelTokenVocab">>] }

Range(f) == { f[x] : x \in DOMAIN f }

EmptyDict == [c \in {} |-> 0]

EmptyRegistry ==
  [networks |-> EmptyDict, vocab_heap |-> <<>>, populated |-> {},
   graph_variables |-> {}]

\* the state of the run as one value
Registry ==
  [networks |-> networks, vocab_heap |-> vocab_heap, populated |-> populated,
   graph_variables |-> graph_variables]

NoCall ==
  [classname |-> "None", input_networks |-> {}, input_network_classes |-> {},
   input_vocab_classes |-> <<>>, output_vocab_classes |-> <<>>,
   throughput_vocab_classes |-> <<>>]

InputNetworkClassesMatch_Subset(reg, call) ==
  { reg.networks[n].classname : n \in call.input_networks }
     \subseteq call.input_network_classes

\* input_network_classes == set(self.input_network_classes)
InputNetworkClassesMatch(reg, call) ==
  { reg.networks[n].classname : n \in call.input_networks }
     = call.input_network_classes

VocabConflict_Never(reg, supplied) == FALSE

\* the loop over the vocabs of the input networks meets a classname whose
\* instance is not the one already in extant_vocabs
VocabConflict(reg, supplied) ==
  \E n1 \in supplied, n2 \in supplied :
    \E v1 \in reg.networks[n1].vocabs, v2 \in reg.networks[n2].vocabs :
      reg.vocab_heap[v1] = reg.vocab_heap[v2] /\ v1 # v2

\* extant_vocabs after that loop (no conflict): classname -> instance
ExtantVocabs(reg, supplied) ==
  LET held == UNION { reg.networks[n].vocabs : n \in supplied }
  IN  [ c \in { reg.vocab_heap[v] : v \in held } |->
          CHOOSE v \in held : reg.vocab_heap[v] = c ]

InExtant_Never(extant, classname) == FALSE

\* classname in extant_vocabs
InExtant(extant, classname) == classname \in DOMAIN extant

\* self._id_vocab: the IDIndexVocab of extant_vocabs, or a new one
ResolveIdVocab(st) ==
  IF InExtant(st.extant, "IDIndexVocab")
    THEN st
    ELSE [st EXCEPT !.extant = ("IDIndexVocab" :> (Len(st.heap) + 1)) @@ st.extant,
                    !.heap = Append(st.heap, "IDIndexVocab")]

\* One of the three loops over a list of vocabulary classnames, from its
\* i-th element on: the instance of extant_vocabs is added to the set, or
\* a new one is instantiated, loaded or counted, added and registered.
RECURSIVE ResolveClasses(_, _, _)
ResolveClasses(classes, i, st) ==
  IF i > Len(classes)
    THEN st
    ELSE LET c == classes[i]
             new == Len(st.heap) + 1
         IN  IF InExtant(st.extant, c)
               THEN ResolveClasses(classes, i + 1,
                      [st EXCEPT !.result = @ \cup {st.extant[c]}])
               ELSE ResolveClasses(classes, i + 1,
                      [extant |-> (c :> new) @@ st.extant,
                       heap |-> Append(st.heap, c),
                       populated |-> st.populated \cup {new},
                       result |-> st.result \cup {new}])

\* the list the third loop iterates: self.output_vocab_classes
ThroughputLoopClasses(call) == call.output_vocab_classes

\* BaseNetwork(input_networks, config) in the run reg: the error it raises,
\* or "None", and the run afterwards.
Construct(reg, call) ==
  IF ~InputNetworkClassesMatch(reg, call)
    THEN [error |-> "Not all input networks were passed in", reg |-> reg]
  ELSE IF VocabConflict(reg, call.input_networks)
    THEN [error |-> "Two input networks have different instances", reg |-> reg]
  ELSE
    LET s0 == [extant |-> ExtantVocabs(reg, call.input_networks),
               heap |-> reg.vocab_heap,
               populated |-> reg.populated,
               result |-> {}]
        s1 == ResolveIdVocab(s0)
        s2 == ResolveClasses(call.input_vocab_classes, 1, [s1 EXCEPT !.result = {}])
        s3 == ResolveClasses(call.output_vocab_classes, 1, [s2 EXCEPT !.result = {}])
        s4 == ResolveClasses(ThroughputLoopClasses(call), 1, [s3 EXCEPT !.result = {}])
        network ==
          [classname |-> call.classname,
           input_networks |-> call.input_networks,
           input_vocab_classes |-> call.input_vocab_classes,
           output_vocab_classes |-> call.output_vocab_classes,
           throughput_vocab_classes |-> call.throughput_vocab_classes,
           id_vocab |-> s1.extant["IDIndexVocab"],
           input_vocabs |-> s2.result,
           output_vocabs |-> s3.result,
           throughput_vocabs |-> s4.result,
           vocabs |-> Range(s4.extant)]
    IN  [error |-> "None",
         reg |-> [networks |-> (call.classname :> network) @@ reg.networks,
                  vocab_heap |-> s4.heap,
                  populated |-> s4.populated,
                  graph_variables |-> reg.graph_variables \cup {call.classname}]]

\* The calls a run can make next: a class not yet constructed, any of the
\* constructed networks as input networks, any declared configuration.
Calls ==
  { [classname |-> cl, input_networks |-> ins, input_network_classes |-> decl,
     input_vocab_classes |-> vc.input_vocab_classes,
     output_vocab_classes |-> vc.output_vocab_classes,
     throughput_vocab_classes |-> vc.throughput_vocab_classes] :
    cl \in NetworkClasses \ DOMAIN networks,
    ins \in SUBSET DOMAIN networks,
    decl \in SUBSET NetworkClasses,
    vc \in VocabConfigs }

\* One BaseNetwork(...) call; an assertion that fails ends the run.
ConstructNetwork ==
  /\ ctor_error = "None"
  /\ \E call \in Calls :
       LET r == Construct(Registry, call)
       IN  /\ ctor_call' = call
           /\ ctor_error' = r.error
           /\ networks' = r.reg.networks
           /\ vocab_heap' = r.reg.vocab_heap
           /\ populated' = r.reg.populated
           /\ graph_variables' = r.reg.graph_variables
  /\ UNCHANGED <<trainVars, parseVars>>

\* The run in which train() is called: a TaggerNetwork, and the network
\* being trained with the TaggerNetwork as its input network.
TrainedRegistry ==
  LET tagger == [NoCall EXCEPT !.classname = "TaggerNetwork",
                               !.input_vocab_classes = <<"FormTokenVocab">>,
                               !.output_vocab_classes = <<"UPOSTokenVocab">>]
      parser == [NoCall EXCEPT !.classname = "ParserNetwork",
                               !.input_networks = {"TaggerNetwork"},
                               !.input_network_classes = {"TaggerNetwork"},
                               !.input_vocab_classes = <<"FormTokenVocab">>,
                               !.output_vocab_classes = <<"DeprelTokenVocab">>]
  IN  Construct(Construct(EmptyRegistry, tagger).reg, parser).reg

\* ------------------------------------------- parse, parse_file, parse_files
MaxFiles == 2
MaxFileBatches == 2

\* A path is a list of components, absolute or relative; None is the
\* Python value None.
None == [none |-> TRUE]

Path(abs, parts) == [abs |-> abs, parts |-> parts]

\* os.path.join(a, b)
Join(a, b) == IF b.abs THEN b ELSE Path(a.abs, a.parts \o b.parts)

\* os.path.split(p): the directory and the base name
Split(p) ==
  [dir |-> Path(p.abs, SubSeq(p.parts, 1, Len(p.parts) - 1)),
   name |-> Path(FALSE, <<p.parts[Len(p.parts)]>>)]

\* a directory and the directories above it
Prefixes(d) == { Path(d.abs, SubSeq(d.parts, 1, n)) : n \in 1..Len(d.parts) }

\* self.save_dir
SaveDir == Path(FALSE, <<"saves">>)

\* os.path.join(self.save_dir, 'parsed', input_dir)
ParsedDir(input_dir) == Join(Join(SaveDir, Path(FALSE, <<"parsed">>)), input_dir)

InputFiles ==
  { Path(FALSE, <<"a.conllu">>), Path(FALSE, <<"data", "b.conllu">>),
    Path(TRUE, <<"corpus", "c.conllu">>) }

OutputDirs == { None, Path(FALSE, <<"out">>), Path(TRUE, <<"out">>) }

\* the empty string
EmptyString == Path(FALSE, <<>>)

OutputFilenames == { None, EmptyString, Path(FALSE, <<"res.conllu">>) }

\* the truth value of an output_filename: neither None nor ''
Truthy(f) == f # None /\ f # EmptyString

\* The calls parse(conllu_files, output_dir, output_filename), with the
\* number of batches dataset.file_batch_iterator yields for each file.
ParseArgs ==
  UNION { [conllu_files : [1..n -> InputFiles],
           n_batches : [1..n -> 0..MaxFileBatches],
           output_dir : OutputDirs,
           output_filename : OutputFilenames] : n \in 0..MaxFiles }

NoParseArgs ==
  [conllu_files |-> <<>>, n_batches |-> <<>>, output_dir |-> None,
   output_filename |-> None]

\* the directories that exist when parse() is called
ExistingDirs(args) ==
  UNION { Prefixes(Split(args.conllu_files[i]).dir) : i \in DOMAIN args.conllu_files }
    \cup {SaveDir}

\* codecs.open(path, 'w') finds the directory of path
DirExists(path, ds) == Split(path).dir.parts = <<>> \/ Split(path).dir \in ds

\* parse(): the CoNLLUDataset over conllu_files is constructed.
ParseBuildDataset ==
  /\ parse_pc = "parse"
  /\ dataset_built' = TRUE
  /\ parse_pc' = "assert"
  /\ UNCHANGED <<parse_args, session_restored, output_dir, output_filename,
                 input_filename, file_index, batch_index, dirs, written,
                 parse_error>>
  /\ UNCHANGED <<trainVars, ctorVars>>

\* if output_filename: assert len(conllu_files) == 1
UsageOk ==
  Truthy(parse_args.output_filename) => Len(parse_args.conllu_files) = 1

\* parse(): the assertion on output_filename.
ParseAssert ==
  /\ parse_pc = "assert"
  /\ IF UsageOk
       THEN parse_pc' = "graph" /\ UNCHANGED parse_error
       ELSE parse_pc' = "raised" /\ parse_error' = "AssertionError"
  /\ UNCHANGED <<parse_args, dataset_built, session_restored, output_dir,
                 output_filename, input_filename, file_index, batch_index,
                 dirs, written>>
  /\ UNCHANGED <<trainVars, ctorVars>>

\* parse(): the graph and the saver are built, the session is opened, the
\* latest checkpoint of save_dir is restored (one is taken to exist), and
\* parse_file or parse_files is entered.
ParseRestore ==
  /\ parse_pc = "graph"
  /\ session_restored' = TRUE
  /\ IF Len(parse_args.conllu_files) = 1 \/ parse_args.output_filename # None
       THEN /\ output_dir' = parse_args.output_dir
            /\ output_filename' = parse_args.output_filename
            /\ IF Len(parse_args.conllu_files) = 0
                 THEN \* dataset.filenames[0]
                      /\ parse_error' = "IndexError"
                      /\ parse_pc' = "raised"
                      /\ UNCHANGED input_filename
                 ELSE /\ input_filename' = parse_args.conllu_files[1]
                      /\ parse_pc' = "parse_file"
                      /\ UNCHANGED parse_error
       ELSE /\ parse_pc' = "parse_files"
            /\ UNCHANGED <<input_filename, output_dir, output_filename,
                           parse_error>>
  /\ file_index' = 1
  /\ batch_index' = 0
  /\ UNCHANGED <<parse_args, dataset_built, dirs, written>>
  /\ UNCHANGED <<trainVars, ctorVars>>

\* parse_file: one iteration of the loop over the batches of the file.  The
\* batch is predicted and cached; in the same iteration the output path is
\* computed from the locals, the directory is made and the predictions
\* cached so far are dumped.
ParseFileBatch ==
  /\ parse_pc = "parse_file"
  /\ batch_index < parse_args.n_batches[1]
  /\ LET sp == Split(input_filename)
         od == IF output_dir = None THEN ParsedDir(sp.dir) ELSE output_dir
         ofn == IF output_dir = None THEN output_filename
                ELSE IF output_filename = None THEN sp.name
                ELSE output_filename
         ds == dirs \cup Prefixes(od)
     IN  /\ batch_index' = batch_index + 1
         /\ input_filename' = sp.name
         /\ output_dir' = od
         /\ dirs' = ds
         /\ IF ofn = None
              THEN \* os.path.join(output_dir, None)
                   /\ output_filename' = ofn
                   /\ parse_error' \in {"TypeError", "AttributeError"}
                   /\ parse_pc' = "raised"
                   /\ UNCHANGED written
              ELSE /\ output_filename' = Join(od, ofn)
                   /\ IF Join(od, ofn) \in ds
                        THEN \* the path is a directory
                             /\ parse_error' \in {"IOError", "IsADirectoryError"}
                             /\ parse_pc' = "raised"
                             /\ UNCHANGED written
                      ELSE IF DirExists(Join(od, ofn), ds)
                        THEN /\ written' = Append(written,
                                     [path |-> Join(od, ofn), file |-> 1,
                                      batches |-> batch_index + 1])
                             /\ UNCHANGED <<parse_pc, parse_error>>
                        ELSE /\ parse_error' \in {"IOError", "FileNotFoundError"}
                             /\ parse_pc' = "raised"
                             /\ UNCHANGED written
  /\ UNCHANGED <<parse_args, dataset_built, session_restored, file_index>>
  /\ UNCHANGED <<trainVars, ctorVars>>

\* parse_file: the loop over the batches is over.
ParseFileEnd ==
  /\ parse_pc = "parse_file"
  /\ batch_index = parse_args.n_batches[1]
  /\ parse_pc' = "done"
  /\ UNCHANGED <<parse_args, dataset_built, session_restored, output_dir,
                 output_filename, input_filename, file_index, batch_index,
                 dirs, written, parse_error>>
  /\ UNCHANGED <<trainVars, ctorVars>>

\* parse_files: one batch of the current file is predicted and cached.
ParseFilesBatch ==
  /\ parse_pc = "parse_files"
  /\ file_index <= Len(parse_args.conllu_files)
  /\ batch_index < parse_args.n_batches[file_index]
  /\ batch_index' = batch_index + 1
  /\ UNCHANGED <<parse_args, parse_pc, dataset_built, session_restored,
                 output_dir, output_filename, input_filename, file_index,
                 dirs, written, parse_error>>
  /\ UNCHANGED <<trainVars, ctorVars>>

\* parse_files: after the batches of the current file its predictions are
\* dumped.  file_output_dir is assigned only when output_dir is None.
ParseFilesWrite ==
  /\ parse_pc = "parse_files"
  /\ file_index <= Len(parse_args.conllu_files)
  /\ batch_index = parse_args.n_batches[file_index]
  /\ LET sp == Split(parse_args.conllu_files[file_index])
         fod == ParsedDir(sp.dir)
     IN  IF parse_args.output_dir = None
           THEN /\ dirs' = dirs \cup Prefixes(fod)
                /\ written' = Append(written,
                        [path |-> Join(fod, sp.name), file |-> file_index,
                         batches |-> batch_index])
                /\ file_index' = file_index + 1
                /\ batch_index' = 0
                /\ UNCHANGED <<parse_pc, parse_error>>
           ELSE /\ parse_error' = "UnboundLocalError"
                /\ parse_pc' = "raised"
                /\ UNCHANGED <<dirs, written, file_index, batch_index>>
  /\ UNCHANGED <<parse_args, dataset_built, session_restored, output_dir,
                 output_filename, input_filename>>
  /\ UNCHANGED <<trainVars, ctorVars>>

\* parse_files: the loop over the files is over; the report of line 341
\* reads file_index, which only the loop binds.
ParseFilesEnd ==
  /\ parse_pc = "parse_files"
  /\ file_index > Len(parse_args.conllu_files)
  /\ IF Len(parse_args.conllu_files) = 0
       THEN parse_error' = "UnboundLocalError" /\ parse_pc' = "raised"
       ELSE UNCHANGED parse_error /\ parse_pc' = "done"
  /\ UNCHANGED <<parse_args, dataset_built, session_restored, output_dir,
                 output_filename, input_filename, file_index, batch_index,
                 dirs, written>>
  /\ UNCHANGED <<trainVars, ctorVars>>

\* no BaseNetwork(...) call is in progress; the networks are those of reg
ConstructIdle(reg) ==
  /\ networks = reg.networks
  /\ vocab_heap = reg.vocab_heap
  /\ populated = reg.populated
  /\ graph_variables = reg.graph_variables
  /\ ctor_call = NoCall
  /\ ctor_error = "None"

\* parse() is called with args, or not at all
ParseAt(position, args) ==
  /\ parse_args = args
  /\ parse_pc = position
  /\ dataset_built = FALSE
  /\ session_restored = FALSE
  /\ output_dir = None
  /\ output_filename = None
  /\ input_filename = None
  /\ file_index = 0
  /\ batch_index = 0
  /\ dirs = ExistingDirs(args)
  /\ written = <<>>
  /\ parse_error = "None"

\* train() is called with the configuration cfg, or (position "idle") not
\* at all
TrainAt(position, cfg) ==
  /\ config = cfg
  /\ pc = position
  /\ input_network_savers = {}
  /\ restored = {}
  /\ current_optimizer = "Adam"
  /\ current_step = 0
  /\ best_accuracy = Zero
  /\ current_accuracy = Zero
  /\ steps_since_best = 0
  /\ global_step = 0
  /\ batch = 0
  /\ n_evals = 0
  /\ checkpoints = {}
  /\ step_optimizer = "None"
  /\ files = {}
  /\ interrupted = FALSE
  /\ exception = "None"

\* train() is called on the constructed network, with a training set of
\* at least one batch.
Init ==
  /\ \E cfg \in BatchedConfigs : TrainAt("train", cfg)
  /\ ConstructIdle(TrainedRegistry)
  /\ ParseAt("idle", NoParseArgs)

\* train() with the configuration cfg and an empty training set, at the
\* loop test after n passes: no pass has run a training step.
AfterEmptyPasses(cfg, n) ==
  /\ config = cfg
  /\ pc = "while"
  /\ input_network_savers = InputNetworks
  /\ restored = {}
  /\ current_optimizer = "Adam"
  /\ current_step = 0
  /\ best_accuracy = Zero
  /\ current_accuracy = Zero
  /\ steps_since_best = 0
  /\ global_step = n
  /\ batch = 0
  /\ n_evals = 0
  /\ checkpoints = {}
  /\ step_optimizer = "None"
  /\ files = {}
  /\ interrupted = FALSE
  /\ exception = "None"

\* train() is called on the constructed network with a training set of at
\* least one batch, or is MaxEmptyPasses passes before the last advance of
\* the epoch counter in a run on an empty training set.
InitAnyTrainset ==
  /\ \/ \E cfg \in BatchedConfigs : TrainAt("train", cfg)
     \/ \E cfg \in Configs \ BatchedConfigs :
          AfterEmptyPasses(cfg, Float32Exact - MaxEmptyPasses)
  /\ ConstructIdle(TrainedRegistry)
  /\ ParseAt("idle", NoParseArgs)

\* A run starts constructing its networks.
InitConstruct ==
  /\ TrainAt("idle", Scenario)
  /\ ConstructIdle(EmptyRegistry)
  /\ ParseAt("idle", NoParseArgs)

\* parse() is called on the constructed network.
InitParse ==
  /\ TrainAt("idle", Scenario)
  /\ ConstructIdle(TrainedRegistry)
  /\ \E args \in ParseArgs : ParseAt("parse", args)

\* --------------------------------------------------------------- actions
\* train(), up to the session: the graphs, one saver per input network,
\* both optimizers and the checkpoint saver are built.
BuildGraphs ==
  /\ pc = "train"
  /\ input_network_savers' = InputNetworks
  /\ pc' = "session"
  /\ UNCHANGED <<config, restored, current_optimizer, current_step,
                 best_accuracy, current_accuracy, steps_since_best,
                 global_step, batch, n_evals, checkpoints, step_optimizer,
                 files, interrupted, exception>>
  /\ UNCHANGED <<ctorVars, parseVars>>

\* The session is opened, every variable is initialized, run() starts with
\* Adam at step 0 and enters the try block.
StartRun ==
  /\ pc = "session"
  /\ current_optimizer' = "Adam"
  /\ current_step' = 0
  /\ best_accuracy' = Zero
  /\ current_accuracy' = Zero
  /\ steps_since_best' = 0
  /\ pc' = "while"
  /\ UNCHANGED <<config, input_network_savers, restored, global_step, batch,
                 n_evals, checkpoints, step_optimizer, files, interrupted,
                 exception>>
  /\ UNCHANGED <<ctorVars, parseVars>>

LoopCondition_Inclusive ==
  /\ current_step <= config.max_steps
  /\ steps_since_best < config.max_steps_without_improvement

\* the condition of the while loop
LoopCondition ==
  /\ current_step < config.max_steps
  /\ steps_since_best < config.max_steps_without_improvement

SwitchCondition_Always == 10 * steps_since_best > config.max_steps_without_improvement

\* steps_since_best > .1*max_steps_without_improvement and switch_optimizers
SwitchCondition ==
  /\ 10 * steps_since_best > config.max_steps_without_improvement
  /\ config.switch_optimizers

NextOptimizer_Recomputed == IF SwitchCondition THEN "AMSGrad" ELSE "Adam"

\* the optimizer of the pass that starts
NextOptimizer == IF SwitchCondition THEN "AMSGrad" ELSE current_optimizer

WhileTest_ResetOnSwitch ==
  /\ pc = "while"
  /\ IF LoopCondition
       THEN /\ current_optimizer' = NextOptimizer
            /\ steps_since_best' =
                 IF NextOptimizer # current_optimizer THEN 0 ELSE steps_since_best
            /\ batch' = 0
            /\ pc' = "for"
       ELSE /\ pc' = "success"
            /\ UNCHANGED <<current_optimizer, batch, steps_since_best>>
  /\ UNCHANGED <<config, input_network_savers, restored, current_step,
                 best_accuracy, current_accuracy, global_step, n_evals,
                 checkpoints, step_optimizer, files, interrupted, exception>>
  /\ UNCHANGED <<ctorVars, parseVars>>

\* The while test: a new pass over the shuffled training batches starts,
\* after the optimizer switch, or the loop is left.
WhileTest ==
  /\ pc = "while"
  /\ IF LoopCondition
       THEN /\ current_optimizer' = NextOptimizer
            /\ batch' = 0
            /\ pc' = "for"
       ELSE /\ pc' = "success"
            /\ UNCHANGED <<current_optimizer, batch>>
  /\ UNCHANGED <<config, input_network_savers, restored, current_step,
                 best_accuracy, current_accuracy, steps_since_best,
                 global_step, n_evals, checkpoints, step_optimizer, files,
                 interrupted, exception>>
  /\ UNCHANGED <<ctorVars, parseVars>>

\* current_step % self.print_every == 0
IsEvalTick(step) == step % config.print_every = 0

Improved_Strict(c, b) == ~GreaterEqual(b, c)

\* the improvement test
Improved(c, b) == GreaterEqual(c, b)

StepsSinceBest_PlusOne(improved) ==
  IF improved THEN 0 ELSE steps_since_best + 1

StepsSinceBest_NoReset(improved) ==
  IF improved THEN steps_since_best ELSE steps_since_best + config.print_every

\* steps_since_best after an evaluation tick
StepsSinceBest(improved) ==
  IF improved THEN 0 ELSE steps_since_best + config.print_every

\* The iterator yields a batch and sess.run(train_tensors) applies an
\* update with the active optimizer (lines 219-223).
RunUpdate ==
  /\ pc = "for"
  /\ batch < config.n_batches
  /\ batch' = batch + 1
  /\ step_optimizer' = current_optimizer
  /\ pc' = "step"
  /\ UNCHANGED <<config, input_network_savers, restored, current_optimizer,
                 current_step, best_accuracy, current_accuracy,
                 steps_since_best, global_step, n_evals, checkpoints, files,
                 interrupted, exception>>
  /\ UNCHANGED <<ctorVars, parseVars>>

\* current_step += 1 and the test of the evaluation tick (lines 224-225).
CountStep ==
  /\ pc = "step"
  /\ current_step' = current_step + 1
  /\ pc' = IF IsEvalTick(current_step + 1) THEN "dev" ELSE "for"
  /\ UNCHANGED <<config, input_network_savers, restored, current_optimizer,
                 best_accuracy, current_accuracy, steps_since_best,
                 global_step, batch, n_evals, checkpoints, step_optimizer,
                 files, interrupted, exception>>
  /\ UNCHANGED <<ctorVars, parseVars>>

\* The sweep over the dev batches and current_accuracy *= .75
\* (lines 226-231).
DevSweep ==
  /\ pc = "dev"
  /\ current_accuracy' = Decay(current_accuracy)
  /\ pc' = "gain"
  /\ UNCHANGED <<config, input_network_savers, restored, current_optimizer,
                 current_step, best_accuracy, steps_since_best, global_step,
                 batch, n_evals, checkpoints, step_optimizer, files,
                 interrupted, exception>>
  /\ UNCHANGED <<ctorVars, parseVars>>

\* current_accuracy += .25*dev_outputs.get_current_accuracy() (line 232).
AddAccuracy ==
  /\ pc = "gain"
  /\ n_evals' = n_evals + 1
  /\ current_accuracy' = Gain(current_accuracy, DevAccuracy(n_evals + 1))
  /\ pc' = "compare"
  /\ UNCHANGED <<config, input_network_savers, restored, current_optimizer,
                 current_step, best_accuracy, steps_since_best, global_step,
                 batch, checkpoints, step_optimizer, files, interrupted,
                 exception>>
  /\ UNCHANGED <<ctorVars, parseVars>>

\* The improvement test and the assignment to steps_since_best
\* (lines 233-234, 241); the tick without improvement ends here.
Compare ==
  /\ pc = "compare"
  /\ LET improved == Improved(current_accuracy, best_accuracy)
     IN  /\ steps_since_best' = StepsSinceBest(improved)
         /\ pc' = IF improved THEN "best" ELSE "for"
  /\ UNCHANGED <<config, input_network_savers, restored, current_optimizer,
                 current_step, best_accuracy, current_accuracy, global_step,
                 batch, n_evals, checkpoints, step_optimizer, files,
                 interrupted, exception>>
  /\ UNCHANGED <<ctorVars, parseVars>>

\* best_accuracy = current_accuracy (line 235).
AssignBest ==
  /\ pc = "best"
  /\ best_accuracy' = current_accuracy
  /\ pc' = "save"
  /\ UNCHANGED <<config, input_network_savers, restored, current_optimizer,
                 current_step, current_accuracy, steps_since_best,
                 global_step, batch, n_evals, checkpoints, step_optimizer,
                 files, interrupted, exception>>
  /\ UNCHANGED <<ctorVars, parseVars>>

\* if self.save_model: saver.save(...) (lines 236-237).
SaveCheckpoint ==
  /\ pc = "save"
  /\ checkpoints' = IF config.save_model THEN checkpoints \cup {n_evals}
                                         ELSE checkpoints
  /\ pc' = "parse_datasets"
  /\ UNCHANGED <<config, input_network_savers, restored, current_optimizer,
                 current_step, best_accuracy, current_accuracy,
                 steps_since_best, global_step, batch, n_evals,
                 step_optimizer, files, interrupted, exception>>
  /\ UNCHANGED <<ctorVars, parseVars>>

\* if self.parse_datasets: self.parse_dataset(...) (lines 238-240).  The
\* class has no attribute parse_dataset: an AttributeError is raised, which
\* the except clause does not catch.
ParseDatasets ==
  /\ pc = "parse_datasets"
  /\ IF config.parse_datasets
       THEN exception' = "AttributeError" /\ pc' = "raise"
       ELSE UNCHANGED exception /\ pc' = "for"
  /\ UNCHANGED <<config, input_network_savers, restored, current_optimizer,
                 current_step, best_accuracy, current_accuracy,
                 steps_since_best, global_step, batch, n_evals, checkpoints,
                 step_optimizer, files, interrupted>>
  /\ UNCHANGED <<ctorVars, parseVars>>

\* The AttributeError passes the except clause (line 267) and leaves
\* run(), curses.wrapper, the session and train().
Propagate ==
  /\ pc = "raise"
  /\ pc' = "done"
  /\ UNCHANGED <<config, input_network_savers, restored, current_optimizer,
                 current_step, best_accuracy, current_accuracy,
                 steps_since_best, global_step, batch, n_evals, checkpoints,
                 step_optimizer, files, interrupted, exception>>
  /\ UNCHANGED <<ctorVars, parseVars>>

EndPass_Skipped ==
  /\ pc = "for"
  /\ batch = config.n_batches
  /\ pc' = "while"
  /\ UNCHANGED <<config, input_network_savers, restored, current_optimizer,
                 current_step, best_accuracy, current_accuracy,
                 steps_since_best, global_step, batch, n_evals, checkpoints,
                 step_optimizer, files, interrupted, exception>>
  /\ UNCHANGED <<ctorVars, parseVars>>

\* tf.assign_add(self.global_step, 1) on the float variable of line 106:
\* the counter advances by 1 while the successor is a float32 value, and
\* stays where it is from 2^24 on (2^24 + 1 is rounded to 2^24).
AssignAdd(x) == IF x < Float32Exact THEN x + 1 ELSE x

\* The batch iterator is exhausted: sess.run(update_step).
EndPass ==
  /\ pc = "for"
  /\ batch = config.n_batches
  /\ global_step' = AssignAdd(global_step)
  /\ pc' = "while"
  /\ UNCHANGED <<config, input_network_savers, restored, current_optimizer,
                 current_step, best_accuracy, current_accuracy,
                 steps_since_best, batch, n_evals, checkpoints,
                 step_optimizer, files, interrupted, exception>>
  /\ UNCHANGED <<ctorVars, parseVars>>

\* After the loop, still inside the try block: open() creates the
\* SUCCESS file (line 265).
WriteSuccess ==
  /\ pc = "success"
  /\ files' = files \cup {"SUCCESS"}
  /\ pc' = "opened"
  /\ UNCHANGED <<config, input_network_savers, restored, current_optimizer,
                 current_step, best_accuracy, current_accuracy,
                 steps_since_best, global_step, batch, n_evals, checkpoints,
                 step_optimizer, interrupted, exception>>
  /\ UNCHANGED <<ctorVars, parseVars>>

\* The with statement is left (line 266) and with it the try block.
LeaveTry ==
  /\ pc = "opened"
  /\ pc' = "scores"
  /\ UNCHANGED <<config, input_network_savers, restored, current_optimizer,
                 current_step, best_accuracy, current_accuracy,
                 steps_since_best, global_step, batch, n_evals, checkpoints,
                 step_optimizer, files, interrupted, exception>>
  /\ UNCHANGED <<ctorVars, parseVars>>

\* the positions of train() inside the try block (lines 211-266)
InTry ==
  pc \in {"while", "for", "step", "dev", "gain", "compare", "best", "save",
          "parse_datasets", "success", "opened"}

KeyboardInterrupt_Success ==
  /\ pc # "done"
  /\ IF InTry
       THEN /\ interrupted' = TRUE
            /\ files' = files \cup {"SUCCESS"}
            /\ pc' = "scores"
            /\ UNCHANGED exception
       ELSE /\ exception' = "KeyboardInterrupt"
            /\ pc' = "done"
            /\ UNCHANGED <<interrupted, files>>
  /\ UNCHANGED <<config, input_network_savers, restored, current_optimizer,
                 current_step, best_accuracy, current_accuracy,
                 steps_since_best, global_step, batch, n_evals, checkpoints,
                 step_optimizer>>
  /\ UNCHANGED <<ctorVars, parseVars>>

\* A KeyboardInterrupt is raised.  Inside the try block "except
\* KeyboardInterrupt: pass" catches it, whatever statement was running, and
\* run() goes on after the try block; outside it leaves train().
KeyboardInterrupt ==
  /\ pc # "done"
  /\ IF InTry
       THEN /\ interrupted' = TRUE
            /\ pc' = "scores"
            /\ UNCHANGED exception
       ELSE /\ exception' = "KeyboardInterrupt"
            /\ pc' = "done"
            /\ UNCHANGED interrupted
  /\ UNCHANGED <<config, input_network_savers, restored, current_optimizer,
                 current_step, best_accuracy, current_accuracy,
                 steps_since_best, global_step, batch, n_evals, checkpoints,
                 step_optimizer, files>>
  /\ UNCHANGED <<ctorVars, parseVars>>

\* The screen is copied, curses.wrapper returns and scores.txt is opened
\* with mode 'wb' (lines 270-281): the file exists, empty.
OpenScores ==
  /\ pc = "scores"
  /\ files' = files \cup {"scores.txt (empty)"}
  /\ pc' = "write"
  /\ UNCHANGED <<config, input_network_savers, restored, current_optimizer,
                 current_step, best_accuracy, current_accuracy,
                 steps_since_best, global_step, batch, n_evals, checkpoints,
                 step_optimizer, interrupted, exception>>
  /\ UNCHANGED <<ctorVars, parseVars>>

\* f.write is given a text string, the decoded transcript (line 282).
\* Python 2 writes it; Python 3 raises TypeError out of train(), leaving
\* the file empty.
WriteScores ==
  /\ pc = "write"
  /\ \E python3 \in BOOLEAN :
       IF python3
         THEN /\ exception' = "TypeError"
              /\ pc' = "done"
              /\ UNCHANGED files
         ELSE /\ files' = (files \ {"scores.txt (empty)"}) \cup {"scores.txt"}
              /\ pc' = "print"
              /\ UNCHANGED exception
  /\ UNCHANGED <<config, input_network_savers, restored, current_optimizer,
                 current_step, best_accuracy, current_accuracy,
                 steps_since_best, global_step, batch, n_evals, checkpoints,
                 step_optimizer, interrupted>>
  /\ UNCHANGED <<ctorVars, parseVars>>

\* The transcript is printed, the file and the session are closed and
\* train() returns (lines 283-285).
PrintScores ==
  /\ pc = "print"
  /\ pc' = "done"
  /\ UNCHANGED <<config, input_network_savers, restored, current_optimizer,
                 current_step, best_accuracy, current_accuracy,
                 steps_since_best, global_step, batch, n_evals, checkpoints,
                 step_optimizer, files, interrupted, exception>>
  /\ UNCHANGED <<ctorVars, parseVars>>

Next ==
  \/ BuildGraphs
  \/ StartRun
  \/ WhileTest
  \/ RunUpdate
  \/ CountStep
  \/ DevSweep
  \/ AddAccuracy
  \/ Compare
  \/ AssignBest
  \/ SaveCheckpoint
  \/ ParseDatasets
  \/ Propagate
  \/ EndPass
  \/ WriteSuccess
  \/ LeaveTry
  \/ KeyboardInterrupt
  \/ OpenScores
  \/ WriteScores
  \/ PrintScores

Spec == Init /\ [][Next]_vars

\* train() when no KeyboardInterrupt is raised
NextUninterrupted ==
  \/ BuildGraphs
  \/ StartRun
  \/ WhileTest
  \/ RunUpdate
  \/ CountStep
  \/ DevSweep
  \/ AddAccuracy
  \/ Compare
  \/ AssignBest
  \/ SaveCheckpoint
  \/ ParseDatasets
  \/ Propagate
  \/ EndPass
  \/ WriteSuccess
  \/ LeaveTry
  \/ OpenScores
  \/ WriteScores
  \/ PrintScores

\* train() runs on: a statement that can be executed is executed.
SpecUninterrupted ==
  InitAnyTrainset /\ [][NextUninterrupted]_vars /\ WF_vars(NextUninterrupted)

NextConstruct == ConstructNetwork

SpecConstruct == InitConstruct /\ [][NextConstruct]_vars

NextParse ==
  \/ ParseBuildDataset
  \/ ParseAssert
  \/ ParseRestore
  \/ ParseFileBatch
  \/ ParseFileEnd
  \/ ParseFilesBatch
  \/ ParseFilesWrite
  \/ ParseFilesEnd

SpecParse == InitParse /\ [][NextParse]_vars

\* ---------------------------------------------------------------- claims
\* line 232 completes in this step: the smoothed accuracy of a tick is set
IsTick == n_evals' = n_evals + 1

\* train() is in the loop (or has just left it by its condition) and no
\* evaluation tick is in progress
BetweenTicks == pc \in {"while", "for", "step", "dev", "success"}

\* the smoothed accuracy, the best one and the improving ticks after
\* evaluation tick t, computed from the raw dev accuracies
RECURSIVE TickHistory(_)
TickHistory(t) ==
  IF t = 0
    THEN [smoothed |-> Zero, best |-> Zero, improving |-> {}]
    ELSE LET h == TickHistory(t - 1)
             c == Smooth(h.smoothed, DevAccuracy(t))
         IN  IF GreaterEqual(c, h.best)
               THEN [smoothed |-> c, best |-> c, improving |-> h.improving \cup {t}]
               ELSE [smoothed |-> c, best |-> h.best, improving |-> h.improving]

\* the smoothed accuracy computed at evaluation tick t (0: before any tick)
SmoothedAt(t) == TickHistory(t).smoothed

\* the maximum of the smoothed accuracies of the ticks 0..t
MaxSmoothed(t) == TickHistory(t).best

\* the ticks so far whose smoothed accuracy was >= the best before them
ImprovingTicks == TickHistory(n_evals).improving

\* C1 (as stated): a checkpoint is saved at an evaluation tick if and only
\* if the smoothed accuracy of the tick is >= the best so far.
C1_Original == BetweenTicks => checkpoints = ImprovingTicks

\* C1 (amended): with save_model enabled a checkpoint is saved exactly at
\* the evaluation ticks whose smoothed accuracy is >= the best so far (ties
\* included), and nowhere else; with save_model disabled none is saved.
C1_SaveIffImproved ==
  /\ []( BetweenTicks =>
            checkpoints = IF config.save_model THEN ImprovingTicks ELSE {} )
  /\ []( checkpoints \subseteq ImprovingTicks )
  /\ [][ checkpoints' # checkpoints
          => /\ config.save_model
             /\ pc = "save"
             /\ n_evals \notin checkpoints
             /\ checkpoints' = checkpoints \cup {n_evals} ]_vars

\* a tie (smoothed accuracy equal to the best, both 0) saved a checkpoint
C1_Witness ==
  /\ config.save_model
  /\ pc = "for"
  /\ n_evals = 2
  /\ current_accuracy = Zero
  /\ checkpoints = {1, 2}

\* C2 (as stated): the final step count never exceeds max_steps.
C2_Original == pc = "done" => current_step <= config.max_steps

\* C2 (amended): the two budgets are tested only at the start of a pass
\* over the training batches: a pass starts only while step < max_steps
\* and steps_since_best < patience, a pass ends only when its batches are
\* exhausted, and a run that leaves the loop by its condition does so
\* after a full pass with step >= max_steps or steps_since_best >=
\* patience and with step < max_steps + (batches per pass).
C2_StopsAtPassBoundary ==
  /\ [][ (pc = "while" /\ pc' = "for")
           => ( /\ current_step < config.max_steps
                /\ steps_since_best < config.max_steps_without_improvement ) ]_vars
  /\ [][ (pc = "for" /\ pc' = "while") => batch = config.n_batches ]_vars
  /\ [][ (pc # "success" /\ pc' = "success") => pc = "while" ]_vars
  /\ []( (pc = "success" \/ "SUCCESS" \in files)
           => ( /\ \/ current_step >= config.max_steps
                   \/ steps_since_best >= config.max_steps_without_improvement
                /\ current_step < config.max_steps + config.n_batches
                /\ batch = config.n_batches ) )

\* a run that left the loop by its condition beyond its step budget
C2_Witness ==
  /\ pc = "done"
  /\ "SUCCESS" \in files
  /\ current_step > config.max_steps
  /\ steps_since_best < config.max_steps_without_improvement

\* C3 (as stated): SUCCESS is written on every exit from the loop.
C3_Original ==
  pc \in {"scores", "write", "print", "done"} => "SUCCESS" \in files

\* C3 (amended): SUCCESS is created only at the end of the try block,
\* after the loop was left by its condition and before any interrupt was
\* caught; a run whose loop is left by a KeyboardInterrupt has no SUCCESS;
\* a run that passes the try block without an interrupt has it.
C3_SuccessAfterLoop ==
  /\ [][ ("SUCCESS" \in files' /\ "SUCCESS" \notin files)
          => (pc = "success" /\ ~interrupted /\ ~interrupted') ]_vars
  /\ []( "SUCCESS" \in files
           => \/ current_step >= config.max_steps
              \/ steps_since_best >= config.max_steps_without_improvement )
  /\ []( (pc \in {"scores", "write", "print"} /\ ~interrupted)
           => "SUCCESS" \in files )
  /\ []( (pc = "done" /\ ~interrupted /\ exception \in {"None", "TypeError"})
           => "SUCCESS" \in files )

\* a run interrupted in the loop that finished without the SUCCESS file
C3_Witness ==
  /\ pc = "done"
  /\ interrupted
  /\ current_step >= 1
  /\ current_step < config.max_steps
  /\ "SUCCESS" \notin files

\* C4 (as stated): from the evaluation tick at which steps_since_best
\* exceeds a tenth of the patience on, training steps use AMSGrad.
C4_Original ==
  /\ [][ ( /\ current_step' = current_step + 1
           /\ config.switch_optimizers
           /\ 10 * steps_since_best > config.max_steps_without_improvement )
         => step_optimizer' = "AMSGrad" ]_vars
  /\ [](~config.switch_optimizers => current_optimizer = "Adam")

\* C4 (amended): the optimizer changes only from Adam to AMSGrad and only
\* at the start of a pass; with switch_optimizers enabled every pass that
\* starts with steps_since_best > 0.1 * patience runs on AMSGrad; with it
\* disabled the optimizer is Adam in every state.
C4_SwitchAtPassStart ==
  /\ [][ current_optimizer' # current_optimizer
           => ( /\ pc = "while" /\ pc' = "for"
                /\ config.switch_optimizers
                /\ 10 * steps_since_best > config.max_steps_without_improvement
                /\ current_optimizer = "Adam"
                /\ current_optimizer' = "AMSGrad" ) ]_vars
  /\ [][ ( /\ pc = "while" /\ pc' = "for"
           /\ config.switch_optimizers
           /\ 10 * steps_since_best > config.max_steps_without_improvement )
         => current_optimizer' = "AMSGrad" ]_vars
  /\ [](~config.switch_optimizers => current_optimizer = "Adam")

\* a pass has just started on AMSGrad after a step that ran on Adam
C4_Witness ==
  /\ pc = "for"
  /\ batch = 0
  /\ current_optimizer = "AMSGrad"
  /\ step_optimizer = "Adam"

\* C5: once the optimizer is AMSGrad it is AMSGrad in every later state.
C5_Irrevocable ==
  [][ current_optimizer = "AMSGrad" => current_optimizer' = "AMSGrad" ]_vars

\* a pass started on AMSGrad after steps_since_best was reset to 0
C5_Witness ==
  /\ pc = "for"
  /\ batch = 0
  /\ current_optimizer = "AMSGrad"
  /\ step_optimizer = "AMSGrad"
  /\ steps_since_best = 0

IsScenario ==
  /\ config.max_steps = 100
  /\ config.max_steps_without_improvement = 20
  /\ config.print_every = 5
  /\ config.dev_accuracies = <<5, 4>>

\* C6 (as stated): in the scenario, after 4 evaluation ticks
\* steps_since_best is 10 and only tick 1 saved a checkpoint, and the step
\* count never passes 100.
C6_Original ==
  (IsScenario /\ BetweenTicks)
    => /\ n_evals = 4 => (steps_since_best = 10 /\ checkpoints = {1})
       /\ current_step <= 100

\* C6 (amended): in the scenario the smoothed accuracies of ticks 1..4
\* (0.125, 0.19375, 0.2703125, 0.302734375 = 775/256 tenths) each improve
\* on the best:
\* after 4 evaluation ticks steps_since_best is 0 and every one of the four
\* ticks saved a checkpoint (none when save_model is disabled); a run that
\* leaves the loop by its condition does so on the step budget, at the end
\* of the first pass that reaches step 100.
C6_ScenarioAllImprove ==
  IsScenario
    => /\ (BetweenTicks /\ n_evals = 4)
            => /\ steps_since_best = 0
               /\ current_accuracy = best_accuracy
               /\ current_accuracy = [hi |-> 775 * 4^9, lo |-> 0]
               /\ checkpoints = IF config.save_model THEN 1..4 ELSE {}
       /\ (pc = "success" \/ "SUCCESS" \in files)
            => /\ current_step >= 100
               /\ current_step < 100 + config.n_batches
               /\ steps_since_best < 20

\* the scenario after its fourth evaluation tick
C6_Witness ==
  /\ IsScenario
  /\ config.save_model
  /\ pc = "for"
  /\ n_evals = 4
  /\ current_step = 20
  /\ checkpoints = {1, 2, 3, 4}

\* C7: at every evaluation tick the smoothed value is first multiplied by
\* 0.75 and then increased by 0.25 times the raw accuracy, so that
\* s[t] = 0.75*s[t-1] + 0.25*a[t]; the first tick gives 0.25*a[0] from
\* initial values 0, and no other step changes the smoothed value.
\* (4*d = 3*s, then 4*(s' - d) = a, limb by limb.)
C7_Smoothing ==
  /\ [][ IF pc = "dev" /\ pc' = "gain"
           THEN LET d == 4 * current_accuracy'.hi - 3 * current_accuracy.hi
                IN  /\ d \in -3..3
                    /\ d * Base + 4 * current_accuracy'.lo - 3 * current_accuracy.lo = 0
                    /\ current_accuracy'.lo \in 0..(Base - 1)
           ELSE IF IsTick
           THEN /\ pc = "gain"
                /\ 4 * (current_accuracy'.hi - current_accuracy.hi)
                     = DevAccuracy(n_evals + 1) * Base
                /\ current_accuracy'.lo = current_accuracy.lo
           ELSE current_accuracy' = current_accuracy ]_vars
  /\ [][ (pc = "dev" /\ pc' # "scores") => pc' = "gain" ]_vars
  /\ [][ (pc = "gain" /\ pc' # "scores") => IsTick ]_vars
  /\ [](n_evals = 0 => (current_accuracy = Zero /\ best_accuracy = Zero))
  /\ []((n_evals = 1 /\ (BetweenTicks \/ pc \in {"compare", "best", "save"}))
          => ( /\ 4 * current_accuracy.hi = DevAccuracy(1) * Base
               /\ current_accuracy.lo = 0 ))

\* a smoothed value below the best after a drop of the raw accuracy
C7_Witness ==
  /\ pc = "for"
  /\ n_evals = 3
  /\ DevAccuracy(3) < DevAccuracy(1)
  /\ current_accuracy # best_accuracy
  /\ current_accuracy.hi > 0

\* C8: steps_since_best is set to 0 by an evaluation tick whose smoothed
\* accuracy is >= the best, grows by print_every at every other tick and is
\* unchanged by any other step; the ticks are the training steps whose
\* number is a positive multiple of print_every.
C8_StepsSinceBest ==
  /\ [][ (pc = "step" /\ pc' # "scores")
          => /\ current_step' = current_step + 1
             /\ pc' = "dev" <=> current_step' % config.print_every = 0 ]_vars
  /\ [][ (pc = "compare" /\ pc' # "scores")
          => IF GreaterEqual(current_accuracy, best_accuracy)
               THEN steps_since_best' = 0
               ELSE steps_since_best' = steps_since_best + config.print_every ]_vars
  /\ [][ steps_since_best' # steps_since_best => pc = "compare" ]_vars
  /\ []( pc \in {"while", "for", "step", "success"}
           => n_evals = current_step \div config.print_every )

\* two evaluation ticks in a row without improvement, print_every = 2
C8_Witness ==
  /\ pc = "for"
  /\ config.print_every = 2
  /\ n_evals = 3
  /\ steps_since_best = 4

\* C9: after a KeyboardInterrupt in the loop no exception leaves train()
\* and scores.txt holds the transcript.
C9_InterruptRecovered ==
  (pc = "done" /\ interrupted)
    => (exception = "None" /\ "scores.txt" \in files)

\* C10: before the first training step every input network's parameters
\* have been restored with the saver built for it.
C10_InputNetworksRestored ==
  current_step >= 1
    => (restored = InputNetworks /\ restored \subseteq input_network_savers)

C21_SwitchFrame ==
  /\ [][ current_optimizer' # current_optimizer
          => /\ current_optimizer = "Adam"
             /\ current_optimizer' = "AMSGrad"
             /\ step_optimizer' = step_optimizer
             /\ current_step' = current_step
             /\ global_step' = global_step
             /\ current_accuracy' = current_accuracy
             /\ best_accuracy' = best_accuracy
             /\ steps_since_best' = steps_since_best
             /\ n_evals' = n_evals
             /\ checkpoints' = checkpoints ]_vars
  /\ [][ (pc = "for" /\ pc' = "step")
          => step_optimizer' = current_optimizer ]_vars

\* the optimizer has just been switched: the last update was made with
\* Adam, the pass that starts will use AMSGrad
C21_Witness ==
  /\ pc = "for"
  /\ batch = 0
  /\ current_optimizer = "AMSGrad"
  /\ step_optimizer = "Adam"
  /\ current_step > 0
  /\ global_step > 0
  /\ steps_since_best > 0
  /\ best_accuracy # Zero
  /\ current_accuracy # best_accuracy

\* C23: in every step of train() the best smoothed accuracy does not
\* decrease; after every evaluation tick it is the maximum of the smoothed
\* accuracies computed so far, hence >= the current one; and
\* steps_since_best is 0 exactly when the smoothed accuracy of the latest
\* tick is the best one (or no tick has happened).
C23_BestIsRunningMax ==
  /\ [][ GreaterEqual(best_accuracy', best_accuracy) ]_vars
  /\ []( BetweenTicks =>
            /\ current_accuracy = SmoothedAt(n_evals)
            /\ best_accuracy = MaxSmoothed(n_evals)
            /\ GreaterEqual(best_accuracy, current_accuracy)
            /\ (steps_since_best = 0 <=> current_accuracy = best_accuracy) )

\* a tick whose smoothed accuracy is below the best has happened after a
\* tick that improved on a positive best
C23_Witness ==
  /\ pc = "for"
  /\ n_evals >= 3
  /\ steps_since_best > 0
  /\ current_accuracy # Zero
  /\ ~GreaterEqual(current_accuracy, best_accuracy)
  /\ checkpoints = {1, 2}

\* the while loop of train() has been left
LoopLeft ==
  pc \in {"success", "opened", "scores", "write", "print", "raise", "done"}

\* C22: without a KeyboardInterrupt the while loop of train() is
\* eventually left, whatever the number of batches of a pass, zero
\* included; and with B >= 1 batches per pass the step counter stays below
\* max_steps + B.
C22_Terminates ==
  /\ <>LoopLeft
  /\ []( config.n_batches >= 1
            => current_step < config.max_steps + config.n_batches )

\* ------------------------------------------------- claims on construction

\* every vocabulary instance met in the composition of the network n: its
\* own sets and the sets of its input networks
Composition(n) ==
  n.vocabs \cup n.input_vocabs \cup n.output_vocabs \cup n.throughput_vocabs
    \cup {n.id_vocab}
    \cup UNION { networks[m].vocabs \cup networks[m].input_vocabs
                   \cup networks[m].output_vocabs
                   \cup networks[m].throughput_vocabs : m \in n.input_networks }

\* C11: after a successful construction no two distinct instances of the
\* composition (the network's vocabs, input_vocabs, output_vocabs,
\* throughput_vocabs and the vocabs of its input networks) have the same
\* class name, and every instance held by an input network is the one the
\* network holds for that class.
C11_OneInstancePerClass ==
  \A c \in DOMAIN networks :
    /\ \A v1 \in Composition(networks[c]), v2 \in Composition(networks[c]) :
         vocab_heap[v1] = vocab_heap[v2] => v1 = v2
    /\ \A m \in networks[c].input_networks :
         networks[m].vocabs \subseteq networks[c].vocabs

C11_Witness ==
  \E c \in DOMAIN networks :
    /\ ctor_error = "None"
    /\ ctor_call.classname = c
    /\ \E m \in networks[c].input_networks :
         \E v \in networks[m].vocabs :
           /\ v \in networks[c].input_vocabs
           /\ v \in networks[c].output_vocabs

\* C12: every class name of input_vocab_classes, output_vocab_classes and
\* throughput_vocab_classes has an instance in the vocabs of the network,
\* and throughput_vocabs holds exactly the instances of the classes of
\* throughput_vocab_classes.
C12_RegistryResolvesDeclared ==
  \A c \in DOMAIN networks :
    LET n == networks[c]
    IN  /\ \A class \in Range(n.input_vocab_classes)
                          \cup Range(n.output_vocab_classes)
                          \cup Range(n.throughput_vocab_classes) :
             \E v \in n.vocabs : vocab_heap[v] = class
        /\ { vocab_heap[v] : v \in n.throughput_vocabs }
             = Range(n.throughput_vocab_classes)

\* C13: every constructed network has an IDIndexVocab, it is the same
\* instance in all the networks of the run, and a network composed from
\* two networks neither of which is an input of the other is constructed
\* without an error.
C13_SharedIdVocab ==
  /\ \A c \in DOMAIN networks :
       /\ vocab_heap[networks[c].id_vocab] = "IDIndexVocab"
       /\ networks[c].id_vocab \in networks[c].vocabs
  /\ \A c1 \in DOMAIN networks, c2 \in DOMAIN networks :
       networks[c1].id_vocab = networks[c2].id_vocab
  /\ ( /\ Cardinality(ctor_call.input_networks) = 2
       /\ ctor_call.input_network_classes = ctor_call.input_networks
       /\ \A m \in ctor_call.input_networks :
            networks[m].input_networks \cap ctor_call.input_networks = {} )
       => ctor_error = "None"

\* a BaseNetwork(...) call is made in this step
IsConstruction == ctor_call' # ctor_call

\* nothing is instantiated, loaded, counted or created in this step
NothingCreated ==
  /\ vocab_heap' = vocab_heap
  /\ populated' = populated
  /\ graph_variables' = graph_variables
  /\ networks' = networks

\* the class names of the networks passed to the call of this step are not
\* the declared ones
ClassesDiffer ==
  { networks[n].classname : n \in ctor_call'.input_networks }
     # ctor_call'.input_network_classes

\* two networks passed to the call of this step hold two instances of one
\* vocabulary class
HoldDifferentInstances ==
  \E n1 \in ctor_call'.input_networks, n2 \in ctor_call'.input_networks :
    \E v1 \in networks[n1].vocabs, v2 \in networks[n2].vocabs :
      vocab_heap[v1] = vocab_heap[v2] /\ v1 # v2

\* C14: a construction whose input networks do not have exactly the
\* declared input_network_classes fails on the first assertion, and no
\* vocabulary is instantiated, loaded or counted and no graph variable is
\* created by it.
C14_ConfigurationErrorFirst ==
  [][ (IsConstruction /\ ClassesDiffer)
        => /\ ctor_error' = "Not all input networks were passed in"
           /\ NothingCreated ]_vars

C14_Witness ==
  /\ ctor_error = "Not all input networks were passed in"
  /\ ctor_call.input_networks # {}
  /\ ctor_call.input_network_classes \ ctor_call.input_networks # {}
  /\ ctor_call.input_networks \ ctor_call.input_network_classes # {}
  /\ vocab_heap # <<>>

\* C15 as stated: whenever two of the input networks hold different
\* instances of one class the construction fails on the assertion of the
\* loop over their vocabs.
C15_Original ==
  [][ (IsConstruction /\ HoldDifferentInstances)
        => /\ ctor_error' = "Two input networks have different instances"
           /\ NothingCreated ]_vars

\* C15: a construction two of whose input networks hold different
\* instances of one class fails on an assertion and instantiates, loads and
\* counts nothing; the assertion is the one of the loop over their vocabs
\* when the input networks have the declared classes, and the one on the
\* input network classes otherwise.
C15_ConflictFails ==
  [][ (IsConstruction /\ HoldDifferentInstances)
        => /\ ctor_error' = IF ClassesDiffer
                              THEN "Not all input networks were passed in"
                              ELSE "Two input networks have different instances"
           /\ NothingCreated ]_vars

C15_Witness ==
  /\ ctor_error = "Two input networks have different instances"
  /\ Cardinality(ctor_call.input_networks) = 2
  /\ ctor_call.input_network_classes = ctor_call.input_networks

\* ---------------------------------------------------------- claims on parse

\* parse() is called with an output filename and not exactly one file
BadUsage ==
  Truthy(parse_args.output_filename) /\ Len(parse_args.conllu_files) # 1

\* C16: a parse() call with an explicit output filename and more than one
\* input file raises the usage error before the dataset over the input
\* files is constructed, before the graph is built and the checkpoint
\* restored, and before an output directory or file is created.
C16_UsageErrorBeforeProcessing ==
  BadUsage =>
    /\ ~dataset_built
    /\ ~session_restored
    /\ dirs = ExistingDirs(parse_args)
    /\ written = <<>>
    /\ parse_pc \notin {"parse", "assert"} => parse_error = "AssertionError"

\* every input file of a finished parse() has been serialized
AllFilesWritten ==
  parse_pc = "done" =>
    \A f \in DOMAIN parse_args.conllu_files :
      \E i \in DOMAIN written : written[i].file = f

\* no input file is serialized twice
WrittenOnce ==
  \A i \in DOMAIN written, j \in DOMAIN written :
    written[i].file = written[j].file => i = j

\* C17: the predictions of each input file are serialized exactly once,
\* and only when all the batches of the file have been predicted and
\* cached, in parse_file as in parse_files.
C17_SerializedOnceAfterAllBatches ==
  /\ \A i \in DOMAIN written :
       written[i].batches = parse_args.n_batches[written[i].file]
  /\ WrittenOnce
  /\ AllFilesWritten

\* os.path.join(save_dir, 'parsed', <directory of the input path>,
\* <base name>)
ExpectedParsedPath(f) == Join(ParsedDir(Split(f).dir), Split(f).name)

\* C18: with neither output_dir nor output_filename, parse() completes and
\* the predictions of each input file are written to
\* <save_dir>/parsed/<directory of the input path>/<base name>, for one
\* file as for several.
C18_DefaultOutputPath ==
  (parse_args.output_dir = None /\ parse_args.output_filename = None) =>
    /\ parse_error = "None"
    /\ \A i \in DOMAIN written :
         written[i].path = ExpectedParsedPath(parse_args.conllu_files[written[i].file])
    /\ AllFilesWritten

\* C19: with an output_dir and no output_filename, parse() raises no error
\* and writes the predictions of each input file once, to
\* <output_dir>/<base name>, for one file as for several.
C19_ExplicitOutputDir ==
  (parse_args.output_dir # None /\ parse_args.output_filename = None) =>
    /\ parse_error = "None"
    /\ \A i \in DOMAIN written :
         written[i].path =
           Join(parse_args.output_dir,
                Split(parse_args.conllu_files[written[i].file]).name)
    /\ WrittenOnce
    /\ AllFilesWritten

=============================================================================
